---- MODULE Spec2Model ----
(***************************************************************************)
(* Model of src/update_minio.py: the TMDB incremental-update pipeline.     *)
(* executor() reads the snapshot, asks the remote API for the latest id,   *)
(* stages one blob per candidate id on a pool of worker threads, combines  *)
(* the staged blobs into one archive blob and merges the archive into the  *)
(* snapshot.  The blob store (one MinIO bucket) is the only durable state. *)
(*                                                                         *)
(* Python values are tagged pairs: <<"int", n>>, <<"str", s>>,             *)
(* <<"null", "">>, <<"list", seq>>; a dict is a TLA+ record.  int 2 and    *)
(* str "2" are different values, as they are for pandas' drop_duplicates.  *)
(***************************************************************************)
EXTENDS Integers, Sequences, FiniteSets, TLC

VARIABLES
    pc,          \* position of executor(): the line it is about to run
    run,         \* ordinal of the current process run (1 for the first)
    date,        \* date_today_str, fixed when the module is imported (line 36)
    tmdbLatest,  \* remote API: id of the most recently added movie
    latest,      \* executor's local `latest` (line 132)
    futures,     \* executor's `futures`: one task per submitted id (line 137)
    pbar,        \* tqdm progress counter pbar.n
    store,       \* the bucket: object name -> blob, for the objects that exist
    snap0,       \* history: the snapshot rows when the run started
    wrote,       \* history: object name -> indexes of this run's tasks that put it
    calls,       \* history: number of calls of combine / load in this run
    raised,      \* history: the stage whose call raised in this run, or "none"
    sample       \* a record under process_movie_data (SpecNormalize); <<>> in a run

vars == <<pc, run, date, tmdbLatest, latest, futures, pbar, store,
          snap0, wrote, calls, raised, sample>>

-----------------------------------------------------------------------------
(* Bounds of the model *)

\* number of process runs explored
MaxRuns == 2
\* look-back used by the runs whose staging interleavings are explored
\* (line 134 hardcodes 400; SpecRange checks the range with the literal)
Window == 1
\* number of distinct values of `latest` drawn in SpecRange
RangeCases == 40
\* tasks submitted beyond the pool size in SpecPool
PoolExtra == 1

(* Program constants *)

\* range(latest-400, latest + 1)
LookBack == 400
\* ThreadPoolExecutor(max_workers=5)
max_workers == 5

FirstLatest == Window + 1

-----------------------------------------------------------------------------
(* Python values *)

Null == <<"null", "">>
PyInt(n) == <<"int", n>>
PyStr(s) == <<"str", s>>
PyList(xs) == <<"list", xs>>
PyBool(b) == <<"bool", b>>

IsList(v) == v[1] = "list"
IsNone(v) == v[1] = "null"

\* str(value) for the scalars the records hold
str(v) ==
    CASE v[1] = "int" -> ToString(v[2])
      [] v[1] = "bool" -> (IF v[2] THEN "True" ELSE "False")
      [] v[1] = "null" -> "None"
      [] OTHER -> v[2]

\* ", ".join(parts) for a sequence of strings
RECURSIVE join(_)
join(parts) ==
    IF Len(parts) = 0 THEN ""
    ELSE IF Len(parts) = 1 THEN parts[1]
    ELSE parts[1] \o ", " \o join(Tail(parts))

SeqToSet(s) == {s[i] : i \in 1..Len(s)}

\* all orderings of a finite set, as sequences
RECURSIVE Orders(_)
Orders(S) ==
    IF S = {} THEN {<<>>}
    ELSE UNION {{<<x>> \o o : o \in Orders(S \ {x})} : x \in S}

-----------------------------------------------------------------------------
(* Object names (lines 33-35, 70, 104, 140): a name is the sequence of the *)
(* pieces the f-strings concatenate, so a prefix test is a test on pieces. *)

data_folder == <<"diffusion/">>
archive_folder == <<"diffusion/", "TMDB_archive">>
output_folder == <<"diffusion/", "temp_data">>

\* mutant: the id left out of the object name
object_name_NoId(movie_id) ==
    output_folder \o <<"scrapeTMDB_movies_", ".ndjson">>

\* f"{output_folder}scrapeTMDB_movies_{movie_id}.ndjson"
object_name(movie_id) ==
    output_folder \o <<"scrapeTMDB_movies_", ToString(movie_id), ".ndjson">>

\* f"{archive_folder}/combined_{date_today_str}.ndjson"
update_file(d) ==
    archive_folder \o <<"/combined_", ToString(d), ".ndjson">>

\* 'diffusion/TMDB_movies.parquet'
original_file == <<"diffusion/", "TMDB_movies.parquet">>

IsPrefix(p, name) ==
    /\ Len(p) <= Len(name)
    /\ \A i \in 1..Len(p) : name[i] = p[i]

\* client.list_objects(MINIO_BUCKET, prefix=..., recursive=True)
list_objects(st, prefix) == {n \in DOMAIN st : IsPrefix(prefix, n)}

\* client.put_object(MINIO_BUCKET, name, data): create or overwrite
put_object(st, name, blob) ==
    [n \in DOMAIN st \cup {name} |-> IF n = name THEN blob ELSE st[n]]

\* client.get_object(MINIO_BUCKET, name)
get_object(st, name) == st[name]

-----------------------------------------------------------------------------
(* Remote API payloads *)

\* GET /movie/{movie_id}: the title changes from run to run, the overview
\* decides whether the serialized document fits one 32 KiB chunk
Detail(movie_id, r, big) ==
    [id |-> PyInt(movie_id),
     title |-> PyStr("T" \o ToString(r)),
     overview |-> PyStr(IF big THEN "long" ELSE "short"),
     genres |-> PyList(<<[id |-> PyInt(18), name |-> "Drama"],
                         [id |-> PyInt(35), name |-> "Comedy"]>>)]

\* GET /movie/{movie_id}/keywords
Keywords(movie_id) ==
    [id |-> PyInt(movie_id),
     keywords |-> <<[id |-> PyInt(1), name |-> "k1"], [id |-> PyInt(2), name |-> "k2"]>>]

\* [k['name'] for k in ...]
Names(dicts) == [i \in 1..Len(dicts) |-> dicts[i].name]

\* movie_data['keywords'] = ", ".join([k['name'] for k in get_keywords(movie_id)['keywords']])
WithKeywords(movie_data, kw) ==
    [f \in DOMAIN movie_data \cup {"keywords"} |->
        IF f = "keywords" THEN PyStr(join(Names(kw.keywords))) ELSE movie_data[f]]

-----------------------------------------------------------------------------
(* Serialized forms *)

\* io.BytesIO(json.dumps(data).encode('utf-8'))
json_dumps(doc) == [format |-> "json", doc |-> doc]

\* response.stream(32*1024): the number of chunks a staged document is read in
stream(blob) == IF blob.doc.overview = PyStr("long") THEN 2 ELSE 1

\* json.loads(line.decode('utf-8')) succeeds on a whole document only
json_loads(blob) == blob.doc

\* DataFrame.to_parquet / pd.read_parquet
to_parquet(rows) == [format |-> "parquet", doc |-> rows]
read_parquet(blob) == blob.doc

\* pd.read_json over the archive array: one row per record
read_json(blob) == blob.doc

-----------------------------------------------------------------------------
(* process_movie_data (lines 77-94) *)

\* [genre['name'] for genre in movie_data['genres'] if 'name' in genre]
RECURSIVE GenreNames(_)
GenreNames(gs) ==
    IF Len(gs) = 0 THEN <<>>
    ELSE IF "name" \in DOMAIN gs[1] THEN <<gs[1].name>> \o GenreNames(Tail(gs))
    ELSE GenreNames(Tail(gs))

\* lines 82-83
FlattenGenres(movie_data) ==
    IF "genres" \in DOMAIN movie_data /\ IsList(movie_data.genres)
    THEN [movie_data EXCEPT !.genres = PyStr(join(GenreNames(movie_data.genres[2])))]
    ELSE movie_data

\* mutant: repr(value) in place of str(value)
CoerceRepr(value) ==
    IF IsList(value) THEN PyStr(join([i \in 1..Len(value[2]) |-> str(value[2][i])]))
    ELSE IF IsNone(value) THEN Null
    ELSE PyStr(IF value[1] = "str" THEN "'" \o value[2] \o "'" ELSE str(value))

\* lines 87-92, for one value
Coerce(value) ==
    IF IsList(value) THEN PyStr(join([i \in 1..Len(value[2]) |-> str(value[2][i])]))
    ELSE IF IsNone(value) THEN Null
    ELSE PyStr(str(value))

process_movie_data(movie_data) ==
    LET flat == FlattenGenres(movie_data)
    IN  [key \in DOMAIN flat |-> Coerce(flat[key])]

-----------------------------------------------------------------------------
(* load_and_update_dataset (lines 109-123): the table it builds *)

\* update_data.apply(process_movie_data, axis=1)
apply(update_data) == [i \in 1..Len(update_data) |-> process_movie_data(update_data[i])]

\* DataFrame.drop_duplicates(subset='id') with the default keep='first':
\* a row stays when no earlier row has an equal id value
RECURSIVE drop_duplicates(_)
drop_duplicates(rows) ==
    IF Len(rows) = 0 THEN <<>>
    ELSE LET front == drop_duplicates(SubSeq(rows, 1, Len(rows) - 1))
             last == rows[Len(rows)]
         IN  IF \E i \in 1..Len(rows) - 1 : rows[i].id = last.id
             THEN front
             ELSE Append(front, last)

\* pd.concat([original_data, update_data]).drop_duplicates(subset='id').reset_index(drop=True)
updated_df(original_data, update_data) ==
    drop_duplicates(original_data \o apply(update_data))

\* an object column that holds values of more than one Python type
MixedColumn(rows, col) ==
    \E i, j \in 1..Len(rows) :
        /\ ~IsNone(rows[i][col]) /\ ~IsNone(rows[j][col])
        /\ rows[i][col][1] # rows[j][col][1]

-----------------------------------------------------------------------------
(* combine_and_upload (lines 96-107): the accumulator it builds *)

\* mutant: combined_data = [...] in place of combined_data.extend([...])
combined_data_Assign(st, objects) ==
    IF Len(objects) = 0 THEN <<>>
    ELSE <<json_loads(get_object(st, objects[Len(objects)]))>>

\* combined_data.extend([...]) for the listed objects, in listing order
RECURSIVE combined_data(_, _)
combined_data(st, objects) ==
    IF Len(objects) = 0 THEN <<>>
    ELSE <<json_loads(get_object(st, objects[1]))>> \o combined_data(st, Tail(objects))

\* every listed object is read in one chunk, so every json.loads gets a document
AllParse(st, objects) == \A i \in 1..Len(objects) : stream(get_object(st, objects[i])) = 1

-----------------------------------------------------------------------------
(* executor (lines 129-140): pure parts *)

\* mutant: range(latest - w, latest), the upper end left out
movie_ids_list_Exclusive(l, w) == [i \in 1..w |-> l - w + i - 1]

\* list(range(latest - w, latest + 1))
movie_ids_list(l, w) == [i \in 1..(w + 1) |-> l - w + i - 1]

\* futures = [executor.submit(process_movie_ids, mid, client, pbar) for mid in movie_ids_list]
submit(ids) ==
    [i \in 1..Len(ids) |-> [mid |-> ids[i], st |-> "pending", movie_data |-> <<>>, seen |-> 0]]

\* mutant: the exception is caught and the function carries on
AfterCallSwallow(st, ok) ==
    CASE st = "detail" -> "keywords"
      [] st = "keywords" -> "put"
      [] st = "put" -> "pbar"
      [] st = "pbar_add" -> "done"

\* where process_movie_ids is after the call it made at `st`: an exception
\* ends the task with the exception in its future
AfterCall(st, ok) ==
    IF ~ok THEN "error"
    ELSE CASE st = "detail" -> "keywords"
           [] st = "keywords" -> "put"
           [] st = "put" -> "pbar"
           [] st = "pbar_add" -> "done"

Finished(t) == t.st \in {"done", "error"}
Running(t) == t.st \in {"detail", "keywords", "put", "pbar", "pbar_add"}

\* mutant: the join returns only if every task succeeded
WaitReturnsAllSucceed(futs) == \A i \in 1..Len(futs) : futs[i].st = "done"

\* mutant: return_when=FIRST_COMPLETED
WaitReturnsFirstCompleted(futs) == \E i \in 1..Len(futs) : Finished(futs[i])

\* concurrent.futures.wait(futures) returns: ALL_COMPLETED, whatever the outcomes
WaitReturns(futs) == \A i \in 1..Len(futs) : Finished(futs[i])

\* mutant: the join re-raises a task's exception (future.result())
WaitOutcomeRaises(futs) == \A i \in 1..Len(futs) : futs[i].st # "error"

\* wait() hands back the futures and never raises a task's exception
WaitOutcome(futs) == TRUE

\* the worker pool takes the pending tasks in submission order
NextPending(futs) ==
    IF \E i \in 1..Len(futs) : futs[i].st = "pending"
    THEN CHOOSE i \in 1..Len(futs) :
            /\ futs[i].st = "pending"
            /\ \A j \in 1..(i - 1) : futs[j].st # "pending"
    ELSE 0

\* mutant: the pool believes no thread is busy
NumRunningNone(futs) == 0

\* the pool threads that are busy with a task
NumRunning(futs) == Cardinality({i \in 1..Len(futs) : Running(futs[i])})

Snapshot(st) == read_parquet(get_object(st, original_file))

StageOrder == <<"read_parquet", "get_latest", "get_oldest", "submit", "wait",
                "combine", "load", "Completed">>

\* mutant: the exception is swallowed and executor() goes on
AfterStageSwallow(stage, ok) ==
    StageOrder[1 + CHOOSE i \in 1..Len(StageOrder) : StageOrder[i] = stage]

\* the line executor() runs after `stage`: an exception leaves executor()
AfterStage(stage, ok) ==
    IF ~ok THEN "Failed"
    ELSE CASE stage = "read_parquet" -> "get_latest"
           [] stage = "get_latest" -> "get_oldest"
           [] stage = "get_oldest" -> "submit"
           [] stage = "submit" -> "wait"
           [] stage = "wait" -> "combine"
           [] stage = "combine" -> "load"
           [] stage = "load" -> "Completed"

\* mutant: the staged objects that were read are removed after the put
StoreAfterCombineCleanup(st, objects, d, ok) ==
    IF ok
    THEN LET new == put_object(st, update_file(d), json_dumps(combined_data(st, objects)))
         IN  [n \in DOMAIN new \ SeqToSet(objects) |-> new[n]]
    ELSE st

\* mutant: the accumulator is put whether or not the loop got through
StoreAfterCombinePartial(st, objects, d, ok) ==
    put_object(st, update_file(d), json_dumps(combined_data(st, objects)))

\* the bucket after combine_and_upload: the archive is put after the loop
StoreAfterCombine(st, objects, d, ok) ==
    IF ok
    THEN put_object(st, update_file(d), json_dumps(combined_data(st, objects)))
    ELSE st

\* mutant: the snapshot is put before the step that raises
StoreAfterLoadEarlyWrite(st, d, ok) ==
    put_object(st, original_file,
        to_parquet(updated_df(read_parquet(get_object(st, original_file)),
                              read_json(get_object(st, update_file(d))))))

\* the bucket after load_and_update_dataset: the snapshot is put as the last step
StoreAfterLoad(st, d, ok) ==
    IF ok
    THEN put_object(st, original_file,
             to_parquet(updated_df(read_parquet(get_object(st, original_file)),
                                   read_json(get_object(st, update_file(d))))))
    ELSE st

-----------------------------------------------------------------------------
(* Initial state: the bucket holds the snapshot only.  Its id column is    *)
(* int (get_oldest is annotated -> int) or str (what process_movie_data    *)
(* makes of an id).                                                        *)

InitRow(k, kind) ==
    [id |-> IF kind = "int" THEN PyInt(k) ELSE PyStr(ToString(k)),
     title |-> PyStr("T0"),
     overview |-> PyStr("short"),
     genres |-> PyStr("Drama"),
     keywords |-> PyStr("k1")]

InitSnapshot(kind) == [k \in 1..Window |-> InitRow(k, kind)]

InitWith(firstLatest) ==
    /\ pc = "read_parquet"
    /\ run = 1
    /\ date = 1
    /\ tmdbLatest \in firstLatest
    /\ latest = 0
    /\ futures = <<>>
    /\ pbar = 0
    /\ \E kind \in {"int", "str"} :
          /\ store = put_object(<<>>, original_file, to_parquet(InitSnapshot(kind)))
          /\ snap0 = InitSnapshot(kind)
    /\ wrote = <<>>
    /\ calls = [combine |-> 0, load |-> 0]
    /\ raised = "none"

Init == InitWith({FirstLatest}) /\ sample = <<>>

-----------------------------------------------------------------------------
(* executor, main thread *)

\* an exception raised by the call of `stage` is recorded
Raise(stage, ok) == IF ok THEN raised ELSE stage

\* line 131: dataset_df = pd.read_parquet(...)
ReadDataset ==
    /\ pc = "read_parquet"
    /\ \E ok \in BOOLEAN :
          /\ pc' = AfterStage("read_parquet", ok)
          /\ raised' = Raise("read_parquet", ok)
    /\ UNCHANGED <<run, date, tmdbLatest, latest, futures, pbar, store, snap0, wrote, calls, sample>>

\* line 132: latest = get_latest(); the remote may have added a movie since
\* the previous run
GetLatest ==
    /\ pc = "get_latest"
    /\ \E ok \in BOOLEAN :
       \E l \in {tmdbLatest} \cup (IF run > 1 THEN {tmdbLatest + 1} ELSE {}) :
          /\ tmdbLatest' = l
          /\ latest' = IF ok THEN l ELSE latest
          /\ pc' = AfterStage("get_latest", ok)
          /\ raised' = Raise("get_latest", ok)
    /\ UNCHANGED <<run, date, futures, pbar, store, snap0, wrote, calls, sample>>

\* line 133: oldest = get_oldest(dataset_df); min() over an id column that
\* mixes int and str raises TypeError
GetOldest ==
    /\ pc = "get_oldest"
    /\ LET ok == ~MixedColumn(Snapshot(store), "id")
       IN  /\ pc' = AfterStage("get_oldest", ok)
           /\ raised' = Raise("get_oldest", ok)
    /\ UNCHANGED <<run, date, tmdbLatest, latest, futures, pbar, store, snap0, wrote, calls, sample>>

\* lines 134-137: build the id list, open the progress bar and the pool,
\* submit one task per id
SubmitWith(w) ==
    /\ pc = "submit"
    /\ futures' = submit(movie_ids_list(latest, w))
    /\ pbar' = 0
    /\ pc' = AfterStage("submit", TRUE)
    /\ UNCHANGED <<run, date, tmdbLatest, latest, store, snap0, wrote, calls, raised, sample>>

Submit == SubmitWith(Window)

\* line 138 and the exit of the two with blocks: the join
Wait ==
    /\ pc = "wait"
    /\ WaitReturns(futures)
    /\ pc' = AfterStage("wait", WaitOutcome(futures))
    /\ raised' = Raise("wait", WaitOutcome(futures))
    /\ UNCHANGED <<run, date, tmdbLatest, latest, futures, pbar, store, snap0, wrote, calls, sample>>

\* line 139: combine_and_upload; the listing order is the store's choice; a
\* list, read, parse or put error raises
Combine ==
    /\ pc = "combine"
    /\ calls' = [calls EXCEPT !.combine = @ + 1]
    /\ \E objects \in Orders(list_objects(store, output_folder)) :
       \E io \in BOOLEAN :
          LET ok == io /\ AllParse(store, objects)
          IN  /\ store' = StoreAfterCombine(store, objects, date, ok)
              /\ pc' = AfterStage("combine", ok)
              /\ raised' = Raise("combine", ok)
    /\ UNCHANGED <<run, date, tmdbLatest, latest, futures, pbar, snap0, wrote, sample>>

\* line 140: load_and_update_dataset; a read, parse, serialization or put
\* error raises.  Two outcomes are the libraries' choice and both are
\* allowed: whether the parquet engine serializes an object column that
\* mixes int and str (line 120), and whether the client takes the bytes
\* value that line 122 hands it where the other puts hand it a stream.
Load ==
    /\ pc = "load"
    /\ calls' = [calls EXCEPT !.load = @ + 1]
    /\ \E ok \in BOOLEAN :
          /\ store' = StoreAfterLoad(store, date, ok)
          /\ pc' = AfterStage("load", ok)
          /\ raised' = Raise("load", ok)
    /\ UNCHANGED <<run, date, tmdbLatest, latest, futures, pbar, snap0, wrote, sample>>

\* the process is started again, the same day or a later one
NewRun ==
    /\ pc \in {"Completed", "Failed"}
    /\ run < MaxRuns
    /\ run' = run + 1
    /\ \E d \in {date, date + 1} : date' = d
    /\ pc' = "read_parquet"
    /\ latest' = 0
    /\ futures' = <<>>
    /\ pbar' = 0
    /\ snap0' = Snapshot(store)
    /\ wrote' = <<>>
    /\ calls' = [combine |-> 0, load |-> 0]
    /\ raised' = "none"
    /\ UNCHANGED <<tmdbLatest, store, sample>>

-----------------------------------------------------------------------------
(* process_movie_ids (lines 63-75), run by a pool thread for futures[i] *)

\* the task's state and its local movie_data (<<>> once an exception or the
\* return has dropped it)
SetTask(i, st, data) == [futures EXCEPT ![i] = [@ EXCEPT !.st = st, !.movie_data = data]]

\* a pool thread takes the next queued task; at most max_workers threads exist
StartTask(i) ==
    /\ i = NextPending(futures)
    /\ NumRunning(futures) < max_workers
    /\ futures' = SetTask(i, "detail", futures[i].movie_data)
    /\ UNCHANGED <<pc, run, date, tmdbLatest, latest, pbar, store, snap0, wrote, calls, raised, sample>>

\* lines 65-68: requests.get, raise_for_status, response.json()
FetchDetail(i) ==
    /\ futures[i].st = "detail"
    /\ \E ok \in BOOLEAN : \E big \in (IF ok THEN BOOLEAN ELSE {FALSE}) :
          futures' = SetTask(i, AfterCall("detail", ok),
                             IF ok THEN Detail(futures[i].mid, run, big) ELSE <<>>)
    /\ UNCHANGED <<pc, run, date, tmdbLatest, latest, pbar, store, snap0, wrote, calls, raised, sample>>

\* line 69: get_keywords and the join
FetchKeywords(i) ==
    /\ futures[i].st = "keywords"
    /\ \E ok \in BOOLEAN :
          futures' = SetTask(i, AfterCall("keywords", ok),
                             IF ok THEN WithKeywords(futures[i].movie_data,
                                                     Keywords(futures[i].mid))
                             ELSE <<>>)
    /\ UNCHANGED <<pc, run, date, tmdbLatest, latest, pbar, store, snap0, wrote, calls, raised, sample>>

Record(w, name, i) ==
    [n \in DOMAIN w \cup {name} |->
        IF n = name THEN (IF n \in DOMAIN w THEN w[n] ELSE {}) \cup {i} ELSE w[n]]

\* lines 70-73: client.put_object of the serialized record
PutStaged(i) ==
    /\ futures[i].st = "put"
    /\ \E ok \in BOOLEAN :
          /\ store' = IF ok THEN put_object(store, object_name(futures[i].mid),
                                            json_dumps(futures[i].movie_data))
                      ELSE store
          /\ wrote' = IF ok THEN Record(wrote, object_name(futures[i].mid), i) ELSE wrote
          /\ futures' = SetTask(i, AfterCall("put", ok),
                                IF ok THEN futures[i].movie_data ELSE <<>>)
    /\ UNCHANGED <<pc, run, date, tmdbLatest, latest, pbar, snap0, calls, raised, sample>>

\* line 75: pbar.update(1).  tqdm.update does `self.n += n` outside its lock:
\* a read of the counter, then a write of the sum, and another thread may
\* run between the two.
PbarRead(i) ==
    /\ futures[i].st = "pbar"
    /\ futures' = [futures EXCEPT ![i] = [@ EXCEPT !.st = "pbar_add", !.seen = pbar]]
    /\ UNCHANGED <<pc, run, date, tmdbLatest, latest, pbar, store, snap0, wrote, calls, raised, sample>>

\* the write of the sum, then the function returns and its locals are gone
PbarUpdate(i) ==
    /\ futures[i].st = "pbar_add"
    /\ pbar' = futures[i].seen + 1
    /\ futures' = [futures EXCEPT ![i] = [@ EXCEPT !.st = AfterCall("pbar_add", TRUE),
                                                   !.movie_data = <<>>, !.seen = 0]]
    /\ UNCHANGED <<pc, run, date, tmdbLatest, latest, store, snap0, wrote, calls, raised, sample>>

Worker ==
    \E i \in 1..Len(futures) :
        \/ StartTask(i)
        \/ FetchDetail(i)
        \/ FetchKeywords(i)
        \/ PutStaged(i)
        \/ PbarRead(i)
        \/ PbarUpdate(i)

-----------------------------------------------------------------------------
Next ==
    \/ ReadDataset
    \/ GetLatest
    \/ GetOldest
    \/ Submit
    \/ Worker
    \/ Wait
    \/ Combine
    \/ Load
    \/ NewRun

Spec == Init /\ [][Next]_vars

(* The range computation with the look-back of the source: the runs up to  *)
(* the submission, for a spread of latest ids.                             *)

RangeLatest == (1000 - RangeCases + 1)..1000

InitRange == InitWith(RangeLatest) /\ sample = <<>>

SubmitRange == SubmitWith(LookBack)

NextRange ==
    \/ ReadDataset
    \/ GetLatest
    \/ GetOldest
    \/ SubmitRange

SpecRange == InitRange /\ [][NextRange]_vars

-----------------------------------------------------------------------------
(* The pipeline under fair scheduling: the main thread goes on to its next *)
(* line, and a pool thread goes on to the next step of its task.           *)

MainThread ==
    \/ ReadDataset
    \/ GetLatest
    \/ GetOldest
    \/ Submit
    \/ Wait
    \/ Combine
    \/ Load

TaskStep(i) ==
    /\ i \in 1..Len(futures)
    /\ \/ StartTask(i)
       \/ FetchDetail(i)
       \/ FetchKeywords(i)
       \/ PutStaged(i)
       \/ PbarRead(i)
       \/ PbarUpdate(i)

Fair == WF_vars(MainThread) /\ \A i \in 1..(Window + 1) : WF_vars(TaskStep(i))

SpecFair == Spec /\ Fair

-----------------------------------------------------------------------------
(* The pool with more tasks than threads (lines 136-138).  The body of    *)
(* process_movie_ids is taken as one step here: which task a thread takes *)
(* and when does not depend on how the bodies interleave.                 *)

PoolTasks == 1..(max_workers + PoolExtra)

InitPool == InitWith({max_workers + PoolExtra}) /\ sample = <<>>

SubmitPool == SubmitWith(max_workers + PoolExtra - 1)

\* lines 63-75 in one step: the two fetches, the put and the progress update,
\* or an exception at one of the calls
RunTask(i) ==
    /\ i \in 1..Len(futures)
    /\ futures[i].st = "detail"
    /\ \E ok \in BOOLEAN :
          LET movie_data == WithKeywords(Detail(futures[i].mid, run, FALSE),
                                         Keywords(futures[i].mid))
          IN  /\ store' = IF ok THEN put_object(store, object_name(futures[i].mid),
                                                json_dumps(movie_data))
                          ELSE store
              /\ wrote' = IF ok THEN Record(wrote, object_name(futures[i].mid), i) ELSE wrote
              /\ pbar' = IF ok THEN pbar + 1 ELSE pbar
              /\ futures' = SetTask(i, IF ok THEN "done" ELSE "error", <<>>)
    /\ UNCHANGED <<pc, run, date, tmdbLatest, latest, snap0, calls, raised, sample>>

PoolWorker == \E i \in PoolTasks : StartTask(i) \/ RunTask(i)

NextPool ==
    \/ ReadDataset
    \/ GetLatest
    \/ GetOldest
    \/ SubmitPool
    \/ PoolWorker
    \/ Wait

\* an idle pool thread takes the next queued task, and a thread that runs a
\* task body gets to the end of it (every call returns or raises)
FairPool == \A i \in PoolTasks : WF_vars(StartTask(i)) /\ WF_vars(RunTask(i))

SpecPool == InitPool /\ [][NextPool]_vars /\ FairPool

(* process_movie_data on its own: a record is drawn and normalized twice.  *)

SampleIds == {PyInt(7), PyInt(12)}
SampleTitles == {Null, PyStr("T1"), PyStr("")}
SampleGenres ==
    {Null, PyStr("Drama"), PyList(<<>>),
     PyList(<<[id |-> PyInt(18), name |-> "Drama"]>>),
     PyList(<<[id |-> PyInt(18), name |-> "Drama"], [id |-> PyInt(35), name |-> "Comedy"]>>)}
SampleLists ==
    {Null, PyList(<<>>), PyList(<<PyStr("en")>>), PyList(<<PyInt(1), PyStr("a, b")>>)}
SampleFlags == {PyBool(TRUE), PyBool(FALSE)}

SampleRecords ==
    [id : SampleIds, title : SampleTitles, genres : SampleGenres,
     spoken_languages : SampleLists, adult : SampleFlags]

InitNormalize ==
    /\ InitWith({FirstLatest})
    /\ \E rec \in SampleRecords : sample = [applied |-> 0, movie_data |-> rec, before |-> rec]

\* movie_data = process_movie_data(movie_data), on a record or on its result
Normalize ==
    /\ sample.applied < 2
    /\ sample' = [applied |-> sample.applied + 1,
                  movie_data |-> process_movie_data(sample.movie_data),
                  before |-> sample.movie_data]
    /\ UNCHANGED <<pc, run, date, tmdbLatest, latest, futures, pbar, store, snap0,
                   wrote, calls, raised>>

NextNormalize == Normalize

SpecNormalize == InitNormalize /\ [][NextNormalize]_vars

-----------------------------------------------------------------------------
(* Properties *)

\* the item a stored id value stands for, whichever its Python type
ItemIds == 0..(FirstLatest + MaxRuns)
Item(v) == IF v[1] = "int" THEN v[2] ELSE CHOOSE k \in ItemIds : ToString(k) = v[2]

\* the archive of the current run date, and the staged objects in the bucket
Archive == read_json(get_object(store, update_file(date)))
Staged == list_objects(store, output_folder)

StageJoined == Len(futures) > 0 /\ \A i \in 1..Len(futures) : Finished(futures[i])

\* C1: after load_and_update_dataset has written the snapshot, for every id
\* present in the prior snapshot and in the archive the row kept for that id
\* is the archive's normalized row (newly fetched data overrides old data).
C1_ArchiveRowWins ==
    pc = "Completed" =>
        \A a \in SeqToSet(Archive) : \A r \in SeqToSet(snap0) :
            Item(r.id) = Item(a.id) =>
                \A row \in SeqToSet(Snapshot(store)) :
                    Item(row.id) = Item(a.id) => row = process_movie_data(a)

\* C2: the snapshot written by load_and_update_dataset holds exactly one row
\* for every item id of the prior snapshot or the archive, and no other row.
C2_OneRowPerItem ==
    pc = "Completed" =>
        LET rows == Snapshot(store)
            items == {Item(r.id) : r \in SeqToSet(snap0)}
                        \cup {Item(a.id) : a \in SeqToSet(Archive)}
        IN  /\ \A k \in items :
                  Cardinality({i \in 1..Len(rows) : Item(rows[i].id) = k}) = 1
            /\ \A i \in 1..Len(rows) : Item(rows[i].id) \in items

\* C3: combine_and_upload is not called, and nothing after it runs, while a
\* staging task of the run is still pending or running.
C3_JoinBeforeCombine ==
    (pc \in {"combine", "load", "Completed"} \/ calls.combine > 0) =>
        \A i \in 1..Len(futures) : Finished(futures[i])

C3_Witness ==
    /\ pc = "combine"
    /\ \E i, j \in 1..Len(futures) : futures[i].st = "error" /\ futures[j].st = "done"

\* C4: a failed staging task does not stop the others nor the run: once the
\* Stage phase has ended, the blob of every task that got through its fetches
\* and its write is in the store, and the run went on to Combine (if it is
\* Failed, the failure came from Combine or UpdateSnapshot).
C4_FailureIsolated ==
    /\ \A i \in 1..Len(futures) :
          futures[i].st \in {"pbar", "pbar_add", "done"} =>
              /\ object_name(futures[i].mid) \in DOMAIN store
              /\ get_object(store, object_name(futures[i].mid)).doc.id = PyInt(futures[i].mid)
    /\ (StageJoined /\ pc # "wait") =>
          /\ pc \in {"combine", "load", "Completed", "Failed"}
          /\ calls.combine + (IF pc = "combine" THEN 1 ELSE 0) = 1
          /\ raised \in {"none", "combine", "load"}

C4_Witness ==
    /\ pc = "combine"
    /\ \E i, j \in 1..Len(futures) :
          /\ futures[i].st = "error"
          /\ futures[j].st = "done"
          /\ object_name(futures[j].mid) \in DOMAIN store

\* C5: the snapshot is what it was when the run started in every state of the
\* run other than Completed: a run that fails, at whatever step of Combine or
\* UpdateSnapshot, leaves the snapshot blob untouched.
C5_FailureKeepsSnapshot ==
    /\ pc # "Completed" => Snapshot(store) = snap0
    /\ raised # "none" => pc = "Failed"

C5_Witness ==
    /\ pc = "Failed"
    /\ raised = "load"
    /\ \E a \in SeqToSet(Archive) : \A r \in SeqToSet(snap0) : Item(r.id) # Item(a.id)

\* C6: the run goes through DetermineRange, Stage, Combine, UpdateSnapshot in
\* that order and never back; Combine and UpdateSnapshot are called at most
\* once, UpdateSnapshot only after a Combine that did not raise; a stage that
\* raises ends the run in Failed and no later stage runs.
StageRank(p) ==
    CASE p \in {"read_parquet", "get_latest", "get_oldest"} -> 1
      [] p \in {"submit", "wait"} -> 2
      [] p = "combine" -> 3
      [] p = "load" -> 4
      [] p \in {"Completed", "Failed"} -> 5

C6_Forward ==
    run' = run =>
        /\ StageRank(pc') >= StageRank(pc)
        /\ pc \in {"Completed", "Failed"} => UNCHANGED <<pc, store, calls, futures>>
        /\ calls'.combine > calls.combine => pc = "combine"
        /\ calls'.load > calls.load => (pc = "load" /\ calls.combine = 1 /\ raised = "none")

C6_Once ==
    /\ calls.combine <= 1
    /\ calls.load <= 1
    /\ calls.load = 1 => calls.combine = 1
    /\ raised # "none" => pc = "Failed"
    /\ raised \in {"read_parquet", "get_latest", "get_oldest"} =>
          (futures = <<>> /\ calls.combine = 0 /\ calls.load = 0)
    /\ raised = "combine" => calls.load = 0
    /\ pc = "Completed" => (calls.combine = 1 /\ calls.load = 1)

C6_StageOrder == [][C6_Forward]_vars /\ []C6_Once

C6_Witness == pc = "Failed" /\ raised = "combine" /\ run = MaxRuns

\* C7: every record of the archive written by this run's combine_and_upload
\* was staged by a task of this run.
C7_ArchiveIsRunsBatch ==
    (calls.combine = 1 /\ raised = "none" /\ pc \in {"load", "Completed"}) =>
        \A a \in SeqToSet(Archive) : object_name(Item(a.id)) \in DOMAIN wrote

\* C8: no object name is written by two staging tasks of a run, and two
\* tasks of a run never have the same object name.
C8_DisjointWrites ==
    /\ \A n \in DOMAIN wrote : Cardinality(wrote[n]) <= 1
    /\ \A i, j \in 1..Len(futures) :
          i # j => object_name(futures[i].mid) # object_name(futures[j].mid)

C8_Witness ==
    /\ Cardinality(DOMAIN wrote) >= 2
    /\ \E i, j \in 1..Len(futures) :
          i # j /\ futures[i].st = "pbar" /\ futures[j].st = "pbar"

\* C9: with the look-back of 400 the submitted tasks are, once each, the 401
\* ids latest-400 .. latest.
C9_CandidateRange ==
    pc = "wait" =>
        /\ Len(futures) = 401
        /\ {futures[i].mid : i \in 1..Len(futures)} = (latest - 400)..latest
        /\ \A i, j \in 1..Len(futures) : futures[i].mid = futures[j].mid => i = j

C9_Witness ==
    /\ pc = "wait"
    /\ latest = 1000
    /\ futures[1].mid = 600
    /\ futures[401].mid = 1000

\* C10: whatever the listing order, the archive written by combine_and_upload
\* holds the records of the staged blobs, each once: its set of records does
\* not depend on the order.
C10_OrderIndependent ==
    (raised = "none" /\ pc \in {"load", "Completed"}) =>
        /\ SeqToSet(Archive) = {json_loads(get_object(store, n)) : n \in Staged}
        /\ Len(Archive) = Cardinality(Staged)

C10_Witness ==
    /\ pc = "load"
    /\ Len(Archive) >= 2
    /\ Item(Archive[1].id) > Item(Archive[2].id)

\* C11: process_movie_data applied to a record it has already normalized
\* returns that record unchanged.
C11_NormalizeIdempotent ==
    sample # <<>> /\ sample.applied = 2 => sample.movie_data = sample.before

C11_Witness ==
    /\ sample # <<>>
    /\ sample.applied = 2
    /\ sample.movie_data.genres = PyStr("Drama, Comedy")
    /\ sample.movie_data.spoken_languages = PyStr("1, a, b")
    /\ sample.movie_data.adult = PyStr("True")
    /\ IsNone(sample.movie_data.title)

\* C12: a combine_and_upload that raises leaves the bucket as it was (no
\* archive written or overwritten); when it does write the archive, every
\* listed blob was read and parsed and the archive holds one record for each.
C12_Step ==
    pc = "combine" =>
        /\ raised' = "combine" => store' = store
        /\ store' # store =>
              /\ raised' = "none"
              /\ \A n \in Staged : stream(get_object(store, n)) = 1
              /\ Len(read_json(get_object(store', update_file(date)))) = Cardinality(Staged)
              /\ \A n \in DOMAIN store : n # update_file(date) => store'[n] = store[n]

C12_AllOrNothing == [][C12_Step]_vars

C12_Witness ==
    /\ pc = "Failed"
    /\ raised = "combine"
    /\ update_file(date) \in DOMAIN store
    /\ \E n, m \in Staged :
          stream(get_object(store, n)) = 2 /\ stream(get_object(store, m)) = 1

\* C13: whatever the size of a listed staged blob, combine_and_upload reads
\* it whole and gets from it exactly the record that was staged, so the
\* accumulator holds one record per listed blob.
C13_OneRecordPerBlob ==
    pc = "combine" =>
        \A objects \in Orders(Staged) :
            /\ AllParse(store, objects)
            /\ Len(combined_data(store, objects)) = Len(objects)
            /\ \A i \in 1..Len(objects) :
                  combined_data(store, objects)[i] = get_object(store, objects[i]).doc

\* C14: a staging task asks for the keywords only with the detail in hand,
\* puts its blob only with both results in hand, and a task that failed has
\* put nothing and has not advanced the progress counter.
C14_TaskState ==
    \A i \in 1..Len(futures) :
        LET t == futures[i]
            mine == object_name(t.mid) \in DOMAIN wrote /\ i \in wrote[object_name(t.mid)]
        IN  /\ t.st = "keywords" =>
                  /\ "id" \in DOMAIN t.movie_data
                  /\ t.movie_data.id = PyInt(t.mid)
                  /\ "keywords" \notin DOMAIN t.movie_data
            /\ t.st = "put" =>
                  /\ "id" \in DOMAIN t.movie_data
                  /\ "keywords" \in DOMAIN t.movie_data
            /\ mine =>
                  /\ t.st \in {"pbar", "pbar_add", "done"}
                  /\ {"id", "keywords"} \subseteq DOMAIN get_object(store, object_name(t.mid)).doc
            /\ t.st = "error" => ~mine

C14_TaskStep ==
    (run' = run /\ Len(futures') = Len(futures)) =>
        /\ \A i \in 1..Len(futures) :
              /\ futures[i].st = "error" => futures'[i].st = "error"
              /\ futures'[i].st = "keywords" => futures[i].st \in {"detail", "keywords"}
              /\ futures'[i].st = "put" => futures[i].st \in {"keywords", "put"}
        /\ pbar' # pbar =>
              \E i \in 1..Len(futures) :
                  /\ futures[i].st = "pbar_add"
                  /\ futures'[i].st = "done"
                  /\ i \in wrote[object_name(futures[i].mid)]

C14_FetchThenWrite == []C14_TaskState /\ [][C14_TaskStep]_vars

C14_Witness ==
    \E i, j \in 1..Len(futures) :
        /\ futures[i].st = "error"
        /\ object_name(futures[i].mid) \in DOMAIN store \ DOMAIN wrote
        /\ futures[j].st = "done"
        /\ pbar = 1

\* C19: when the Stage phase has joined, the progress counter equals the
\* number of staging tasks that completed (no increment is lost), and it
\* never exceeds the number of candidate ids.
C19_CounterCountsSuccesses ==
    /\ pbar <= Len(futures)
    /\ (Len(futures) > 0 /\ WaitReturns(futures)) =>
          pbar = Cardinality({i \in 1..Len(futures) : futures[i].st = "done"})

\* C15: only load_and_update_dataset changes the snapshot object, and no
\* stage after staging removes or changes a staged object:
\* combine_and_upload and load_and_update_dataset leave every staged object
\* present and unchanged.
C15_Step ==
    /\ get_object(store', original_file) # get_object(store, original_file) =>
          pc = "load" /\ calls'.load = calls.load + 1
    /\ original_file \in DOMAIN store'
    /\ pc \in {"combine", "load", "Completed", "Failed"} =>
          \A n \in Staged : n \in DOMAIN store' /\ store'[n] = store[n]

C15_SnapshotAndStagedFrame == [][C15_Step]_vars

C15_Witness ==
    /\ pc = "Completed"
    /\ Snapshot(store) # snap0
    /\ Cardinality(Staged) = Window + 1
    /\ update_file(date) \in DOMAIN store

\* C16: an archive object, once written by a run's combine_and_upload,
\* stays in the bucket with the content that run wrote, through every later
\* run, two runs of the same run date included.
C16_Step ==
    \A n \in DOMAIN store :
        IsPrefix(archive_folder, n) => (n \in DOMAIN store' /\ store'[n] = store[n])

C16_ArchiveRetained == [][C16_Step]_vars

\* C17: whatever the interleaving, at most max_workers staging tasks are
\* executing at any moment; a submitted task starts only when a pool thread
\* is free; and every submitted task is eventually started.
C17_Executing == {i \in 1..Len(futures) : futures[i].st \notin {"pending", "done", "error"}}

C17_StartStep ==
    \A i \in 1..Len(futures) :
        (Len(futures') = Len(futures) /\ futures[i].st = "pending" /\ futures'[i].st # "pending") =>
            /\ Cardinality(C17_Executing) < max_workers
            /\ futures'[i].st = "detail"

C17_PoolBound ==
    /\ [](Cardinality(C17_Executing) <= max_workers)
    /\ [][C17_StartStep]_vars
    /\ \A i \in PoolTasks :
          (i <= Len(futures) /\ futures[i].st = "pending") ~>
              (i <= Len(futures) /\ futures[i].st # "pending")

C17_Witness ==
    /\ Len(futures) > max_workers
    /\ Cardinality(C17_Executing) = max_workers
    /\ futures[Len(futures)].st = "detail"
    /\ \E i \in 1..Len(futures) : futures[i].st = "error"

\* C18: if every call a worker makes eventually returns or raises, every run
\* of executor() eventually reaches Completed or Failed: the join returns
\* also when some or all of the staging tasks failed.
C18_RunsTerminate ==
    \A r \in 1..MaxRuns :
        (run = r) ~> (run = r /\ pc \in {"Completed", "Failed"})

C18_Witness ==
    /\ pc \in {"Completed", "Failed"}
    /\ raised \notin {"read_parquet", "get_latest", "get_oldest"}
    /\ Len(futures) = Window + 1
    /\ \A i \in 1..Len(futures) : futures[i].st = "error"

====
